---- MODULE Spec2Model ----
(***************************************************************************)
(* Model of api/gemini.py: the HTTP handler of the career-guide API.       *)
(* One request is served at a time; every external collaborator (scorer,   *)
(* goal extractor, generative service, report builder, PDF renderer, Drive *)
(* client) is a call whose outcome the environment chooses.                *)
(***************************************************************************)
EXTENDS Naturals, Sequences, FiniteSets

VARIABLES pc, req, response, calls, store, store0, reqNo,
          student_name, career_goal, pdf_filename, created, filename, found

vars == <<pc, req, response, calls, store, store0, reqNo,
          student_name, career_goal, pdf_filename, created, filename, found>>

\* Number of requests served in one behaviour.
MaxRequests == 2

-----------------------------------------------------------------------------
(* Python values *)

\* Optional string: Python None or a str (a sequence of characters).
PyNone == [some |-> FALSE, s |-> <<>>]
PyStr(s) == [some |-> TRUE, s |-> s]

\* JSON documents as json.loads returns them.
JNull == [t |-> "null"]
JBool(b) == [t |-> "bool", b |-> b]
JNum(n) == [t |-> "num", n |-> n]
JStr(s) == [t |-> "str", s |-> s]
JList(items) == [t |-> "list", items |-> items]
JObj(fields) == [t |-> "obj", fields |-> fields]

\* bool(v) of a parsed JSON value.
Truthy(v) ==
    CASE v.t = "null" -> FALSE
      [] v.t = "bool" -> v.b
      [] v.t = "num" -> v.n # 0
      [] v.t = "str" -> Len(v.s) > 0
      [] v.t = "list" -> Len(v.items) > 0
      [] v.t = "obj" -> DOMAIN v.fields # {}

\* str.__contains__: p occurs in s as a contiguous run of characters.
IsSubstring(p, s) ==
    \E i \in 0..Len(s) : i + Len(p) <= Len(s) /\ SubSeq(s, i + 1, i + Len(p)) = p

\* str.startswith
StartsWith(s, p) == Len(s) >= Len(p) /\ SubSeq(s, 1, Len(p)) = p

answersKey == <<"a", "n", "s", "w", "e", "r", "s">>

\* The test  'answers' in data : "TypeError" when data is not a container.
ContainsAnswers(v) ==
    CASE v.t = "obj" -> IF "answers" \in DOMAIN v.fields THEN "yes" ELSE "no"
      [] v.t = "list" ->
            IF \E i \in 1..Len(v.items) :
                  v.items[i].t = "str" /\ v.items[i].s = answersKey
            THEN "yes" ELSE "no"
      [] v.t = "str" -> IF IsSubstring(answersKey, v.s) THEN "yes" ELSE "no"
      [] OTHER -> "TypeError"

\* Lines 170-174: the outcome of validating the parsed body.
ValidateData(data) ==
    IF ~Truthy(data) THEN "Missing answers data"
    ELSE LET c == ContainsAnswers(data) IN
         IF c = "TypeError" THEN "TypeError"
         ELSE IF c = "no" THEN "Missing answers data"
         ELSE IF data.t # "obj" THEN "TypeError"
         ELSE IF data.fields.answers.t # "obj" THEN "Invalid answers format"
         ELSE "ok"

Whitespace == {" ", "\t", "\n"}

\* str.strip(): drop leading and trailing whitespace.
RECURSIVE LStrip(_)
LStrip(s) == IF s # <<>> /\ Head(s) \in Whitespace THEN LStrip(Tail(s)) ELSE s

RECURSIVE RStrip(_)
RStrip(s) ==
    IF s # <<>> /\ s[Len(s)] \in Whitespace THEN RStrip(SubSeq(s, 1, Len(s) - 1)) ELSE s

\* Variant: only the leading whitespace is dropped (lstrip for strip).
StripLeadingOnly(s) == LStrip(s)

Strip(s) == RStrip(LStrip(s))

\* data.get('studentName', 'Student').strip(): None models the AttributeError
\* raised when the field holds something that is not a string.
StudentName(data) ==
    IF "studentName" \notin DOMAIN data.fields THEN PyStr(Strip(<<"S", "t", "u", "d", "e", "n", "t">>))
    ELSE IF data.fields.studentName.t = "str" THEN PyStr(Strip(data.fields.studentName.s))
    ELSE PyNone

\* f"{student_name.replace(' ', '_')}_Career_Report.pdf"
PdfFilename(name) ==
    [i \in 1..Len(name) |-> IF name[i] = " " THEN "_" ELSE name[i]]
        \o <<"_Career_Report.pdf">>

\* _send_error(status, message)
SendError(status, message) == [status |-> status, error |-> message]

NoResponse == [status |-> 0, error |-> ""]

-----------------------------------------------------------------------------
(* Requests *)

SubmitPath == <<"/", "api", "/", "submit-assessment">>
HealthPath == <<"/", "api", "/", "health">>
DownloadPrefix == <<"/", "api", "/", "download-report", "/">>
BearerPrefix == <<"B", "e", "a", "r", "e", "r", " ">>

Answers == { JObj(<<>>),
             JObj([question1 |-> JStr(<<"A">>)]),
             JObj([question13 |-> JStr(<<"x">>), question30 |-> JStr(<<"y">>)]) }

NotAMapping == { JList(<<>>), JList(<<JStr(<<"A">>)>>), JStr(<<"A">>), JNum(3), JNull }

StudentNames == { JStr(<<"A">>), JStr(<<" ", "A", " ", "b", "\t">>), JStr(<<" ">>),
                  JStr(<<"A", "\t", "b">>), JNum(7), JNull }

JsonBodies ==
    { JObj([answers |-> a]) : a \in Answers \cup NotAMapping }
    \cup { JObj([answers |-> a, studentName |-> n]) : a \in Answers, n \in StudentNames }
    \cup { JObj(<<>>), JObj([studentName |-> JStr(<<"A">>)]),
           JNull, JNum(0), JNum(5), JBool(TRUE), JBool(FALSE),
           JStr(<<>>), JStr(<<"A">>), JStr(answersKey),
           JList(<<>>), JList(<<JNum(1)>>), JList(<<JStr(answersKey)>>) }

\* A request body: the Content-Length header, and what the bytes decode to.
Bodies ==
    { [content_length |-> TRUE, kind |-> "json", v |-> j] : j \in JsonBodies }
    \cup { [content_length |-> TRUE, kind |-> "malformed", v |-> JNull],
           [content_length |-> TRUE, kind |-> "undecodable", v |-> JNull],
           [content_length |-> FALSE, kind |-> "json", v |-> JObj([answers |-> JObj(<<>>)])] }

EmptyBody == [content_length |-> FALSE, kind |-> "json", v |-> JNull]

AuthHeaders == { PyNone, PyStr(<<>>), PyStr(BearerPrefix), PyStr(BearerPrefix \o <<"t">>),
                 PyStr(<<"B", "a", "s", "i", "c", " ", "t">>),
                 PyStr(<<"b", "e", "a", "r", "e", "r", " ", "t">>) }

DownloadNames == { <<>>, <<"foo.pdf">>, <<"old.pdf">>, <<"none.pdf">>,
                   <<"A", "_Career_Report.pdf">>, <<"A", "%20", "b.pdf">> }

Paths == { SubmitPath, HealthPath, DownloadPrefix \o <<"foo.pdf">>,
           <<"/", "other">>, HealthPath \o <<"/">> }

Requests ==
    { [method |-> "POST", path |-> SubmitPath, auth |-> PyNone, body |-> b] : b \in Bodies }
    \cup { [method |-> "POST", path |-> p, auth |-> PyNone,
            body |-> [content_length |-> TRUE, kind |-> "json", v |-> JObj([answers |-> JObj(<<>>)])]]
           : p \in Paths }
    \cup { [method |-> "GET", path |-> DownloadPrefix \o n, auth |-> a, body |-> EmptyBody]
           : n \in DownloadNames, a \in AuthHeaders }
    \cup { [method |-> m, path |-> p, auth |-> PyStr(BearerPrefix \o <<"t">>), body |-> EmptyBody]
           : m \in {"GET", "PUT", "DELETE"}, p \in Paths }

-----------------------------------------------------------------------------
(* The external file store (Google Drive) *)

\* The link Drive gives a file.
WebViewLink(id) == <<"https://drive.google.com/file/d/", id>>

\* Files the store holds before the first request.
InitialStore ==
    { [id |-> 1, name |-> <<"foo.pdf">>, trashed |-> FALSE, public |-> TRUE,
       webViewLink |-> WebViewLink(1)],
      [id |-> 2, name |-> <<"old.pdf">>, trashed |-> TRUE, public |-> TRUE,
       webViewLink |-> WebViewLink(2)] }

\* The id Drive gives the next file it creates.
NextId == Cardinality(store) + 1

\* files().list(q="name='<filename>' and trashed=false")
ListFiles(name) == { f \in store : f.name = name /\ ~f.trashed }

\* One external call of the running handler and how it ended: "ok", "raise"
\* (an exception), "none" or "empty" (a falsy return value).
Call(op, result) == [op |-> op, result |-> result]

-----------------------------------------------------------------------------
(* The server *)

Init ==
    /\ pc = "idle"
    /\ req = [method |-> "GET", path |-> HealthPath, auth |-> PyNone, body |-> EmptyBody]
    /\ response = NoResponse
    /\ calls = <<>>
    /\ store = InitialStore
    /\ store0 = InitialStore
    /\ reqNo = 0
    /\ student_name = <<>>
    /\ career_goal = PyNone
    /\ pdf_filename = <<>>
    /\ created = 0
    /\ filename = <<>>
    /\ found = 0

\* The locals of a handler invocation, before it has run.
FreshLocals ==
    /\ student_name' = <<>>
    /\ career_goal' = PyNone
    /\ pdf_filename' = <<>>
    /\ created' = 0
    /\ filename' = <<>>
    /\ found' = 0

\* A request arrives; the previous one has been answered.
Receive ==
    /\ pc \in {"idle", "done"}
    /\ reqNo < MaxRequests
    /\ \E r \in Requests : req' = r
    /\ pc' = "dispatch"
    /\ response' = NoResponse
    /\ calls' = <<>>
    /\ store0' = store
    /\ reqNo' = reqNo + 1
    /\ FreshLocals
    /\ UNCHANGED store

\* The handler ends with this response.
Finish(r) == response' = r /\ pc' = "done"

\* BaseHTTPRequestHandler answers a method the class has no do_<METHOD> for.
UnsupportedMethod ==
    /\ pc = "dispatch"
    /\ req.method \notin {"GET", "POST"}
    /\ Finish(SendError(501, "Unsupported method"))
    /\ UNCHANGED <<req, calls, store, store0, reqNo, student_name, career_goal,
                   pdf_filename, created, filename, found>>

\* do_POST up to its first external call: routing, reading and parsing the
\* body, validating it.
PostOutcome(r) ==
    IF r.path # SubmitPath THEN SendError(404, "Route not found")
    ELSE IF ~r.body.content_length
        THEN SendError(500, "Assessment processing failed: TypeError")
    ELSE IF r.body.kind = "undecodable"
        THEN SendError(500, "Assessment processing failed: UnicodeDecodeError")
    ELSE IF r.body.kind = "malformed" THEN SendError(400, "Invalid JSON data")
    ELSE LET v == ValidateData(r.body.v) IN
         IF v = "TypeError" THEN SendError(500, "Assessment processing failed: TypeError")
         ELSE IF v = "ok" THEN NoResponse
         ELSE SendError(400, v)

do_POST ==
    /\ pc = "dispatch"
    /\ req.method = "POST"
    /\ LET r == PostOutcome(req) IN
         IF r = NoResponse THEN pc' = "calculate_scores" /\ UNCHANGED response
         ELSE Finish(r)
    /\ UNCHANGED <<req, calls, store, store0, reqNo, student_name, career_goal,
                   pdf_filename, created, filename, found>>

\* Line 177: assessment_manager.calculate_scores(data['answers'])
CalculateScores ==
    /\ pc = "calculate_scores"
    /\ \E ok \in BOOLEAN :
         /\ calls' = Append(calls, Call("calculate_scores", IF ok THEN "ok" ELSE "raise"))
         /\ IF ok THEN pc' = "extract_career_goal" /\ UNCHANGED response
            ELSE Finish(SendError(500, "Assessment processing failed: scorer"))
    /\ UNCHANGED <<req, store, store0, reqNo, student_name, career_goal,
                   pdf_filename, created, filename, found>>

\* What extract_career_goal may return; "raise" is an exception.
GoalOutcomes == { [raised |-> FALSE, goal |-> PyStr(<<"D", "r">>)],
                  [raised |-> FALSE, goal |-> PyStr(<<>>)],
                  [raised |-> FALSE, goal |-> PyNone],
                  [raised |-> TRUE, goal |-> PyNone] }

\* How the call of extract_career_goal ended.
GoalResult(o) ==
    IF o.raised THEN "raise"
    ELSE IF ~o.goal.some THEN "none"
    ELSE IF o.goal.s = <<>> THEN "empty"
    ELSE "ok"

\* Variant: only None counts as no goal (career_goal is None).
NoGoalNoneOnly(g) == ~g.some

\* not career_goal
NoGoal(g) == ~g.some \/ g.s = <<>>

\* Lines 180-195: the student details, then the career goal.
ExtractCareerGoal ==
    /\ pc = "extract_career_goal"
    /\ LET name == StudentName(req.body.v) IN
         IF ~name.some
         THEN /\ Finish(SendError(500, "Assessment processing failed: AttributeError"))
              /\ UNCHANGED <<calls, student_name, career_goal>>
         ELSE /\ student_name' = name.s
              /\ \E o \in GoalOutcomes :
                   /\ calls' = Append(calls, Call("extract_career_goal", GoalResult(o)))
                   /\ career_goal' = o.goal
                   /\ IF o.raised
                      THEN Finish(SendError(500, "Assessment processing failed: extractor"))
                      ELSE IF NoGoal(o.goal)
                      THEN Finish(SendError(500, "Failed to extract career goal"))
                      ELSE pc' = "generate_topic_reports" /\ UNCHANGED response
    /\ UNCHANGED <<req, store, store0, reqNo, pdf_filename, created, filename, found>>

\* Variant: the handler does not test the sections and goes on without any.
GenerateTopicReportsUnchecked ==
    /\ pc = "generate_topic_reports"
    /\ \E o \in {"ok", "empty", "raise"} :
         /\ calls' = Append(calls, Call("generate_topic_reports", o))
         /\ CASE o \in {"ok", "empty"} -> pc' = "build_report_data" /\ UNCHANGED response
              [] o = "raise" -> Finish(SendError(500, "Assessment processing failed: generator"))
    /\ UNCHANGED <<req, store, store0, reqNo, student_name, career_goal,
                   pdf_filename, created, filename, found>>

\* Lines 198-205: generate_topic_reports returns sections, nothing, or raises.
GenerateTopicReports ==
    /\ pc = "generate_topic_reports"
    /\ \E o \in {"ok", "empty", "raise"} :
         /\ calls' = Append(calls, Call("generate_topic_reports", o))
         /\ CASE o = "ok" -> pc' = "build_report_data" /\ UNCHANGED response
              [] o = "empty" -> Finish(SendError(500, "Failed to generate report sections"))
              [] o = "raise" -> Finish(SendError(500, "Assessment processing failed: generator"))
    /\ UNCHANGED <<req, store, store0, reqNo, student_name, career_goal,
                   pdf_filename, created, filename, found>>

\* Line 208: build_report_data
BuildReportData ==
    /\ pc = "build_report_data"
    /\ \E ok \in BOOLEAN :
         /\ calls' = Append(calls, Call("build_report_data", IF ok THEN "ok" ELSE "raise"))
         /\ IF ok THEN pc' = "generate_pdf_report" /\ UNCHANGED response
            ELSE Finish(SendError(500, "Assessment processing failed: builder"))
    /\ UNCHANGED <<req, store, store0, reqNo, student_name, career_goal,
                   pdf_filename, created, filename, found>>

\* Lines 211-212: the file name, then generate_pdf_report
GeneratePdfReport ==
    /\ pc = "generate_pdf_report"
    /\ pdf_filename' = PdfFilename(student_name)
    /\ \E ok \in BOOLEAN :
         /\ calls' = Append(calls, Call("generate_pdf_report", IF ok THEN "ok" ELSE "raise"))
         /\ IF ok THEN pc' = "setup_google_drive" /\ UNCHANGED response
            ELSE Finish(SendError(500, "Assessment processing failed: renderer"))
    /\ UNCHANGED <<req, store, store0, reqNo, student_name, career_goal,
                   created, filename, found>>

\* Lines 215-217: setup_google_drive returns a client, or None on any failure.
PostSetupDrive ==
    /\ pc = "setup_google_drive"
    /\ \E ok \in BOOLEAN :
         /\ calls' = Append(calls, Call("setup_google_drive", IF ok THEN "ok" ELSE "none"))
         /\ IF ok THEN pc' = "files.create" /\ UNCHANGED response
            ELSE Finish(SendError(500, "Failed to initialize Google Drive API"))
    /\ UNCHANGED <<req, store, store0, reqNo, student_name, career_goal,
                   pdf_filename, created, filename, found>>

\* Variant: a failed files().create is issued again.
FilesCreateRetrying ==
    /\ pc = "files.create"
    /\ \E ok \in BOOLEAN :
         /\ calls' = Append(calls, Call("files.create", IF ok THEN "ok" ELSE "raise"))
         /\ IF ok
            THEN /\ store' = store \cup { [id |-> NextId, name |-> pdf_filename,
                                           trashed |-> FALSE, public |-> FALSE,
                                           webViewLink |-> WebViewLink(NextId)] }
                 /\ created' = NextId
                 /\ pc' = "permissions.create"
            ELSE UNCHANGED <<store, created, pc>>
    /\ UNCHANGED <<req, response, store0, reqNo, student_name, career_goal,
                   pdf_filename, filename, found>>

\* upload_to_drive, lines 85-89: files().create; any exception makes
\* upload_to_drive return None and the handler answer 500.
FilesCreate ==
    /\ pc = "files.create"
    /\ \E ok \in BOOLEAN :
         /\ calls' = Append(calls, Call("files.create", IF ok THEN "ok" ELSE "raise"))
         /\ IF ok
            THEN /\ store' = store \cup { [id |-> NextId, name |-> pdf_filename,
                                           trashed |-> FALSE, public |-> FALSE,
                                           webViewLink |-> WebViewLink(NextId)] }
                 /\ created' = NextId
                 /\ pc' = "permissions.create"
                 /\ UNCHANGED response
            ELSE /\ Finish(SendError(500, "Failed to upload PDF to Google Drive"))
                 /\ UNCHANGED <<store, created>>
    /\ UNCHANGED <<req, store0, reqNo, student_name, career_goal,
                   pdf_filename, filename, found>>

\* Lines 229-239: the success response.
SuccessResponse(upload_result) ==
    [status |-> 200, error |-> "",
     message |-> "Report generated successfully",
     report_url |-> upload_result.webViewLink,
     file_id |-> upload_result.id,
     file_name |-> pdf_filename,
     student_name |-> student_name,
     career_goal |-> career_goal.s]

\* upload_to_drive, lines 92-107: permissions().create, the returned id and
\* link, and the handler's answer.
PermissionsCreate ==
    /\ pc = "permissions.create"
    /\ \E ok \in BOOLEAN :
         /\ calls' = Append(calls, Call("permissions.create", IF ok THEN "ok" ELSE "raise"))
         /\ IF ok
            THEN /\ store' = { IF f.id = created THEN [f EXCEPT !.public = TRUE] ELSE f
                               : f \in store }
                 /\ \E file \in { f \in store : f.id = created } :
                      Finish(SuccessResponse([id |-> file.id,
                                              webViewLink |-> file.webViewLink]))
            ELSE /\ Finish(SendError(500, "Failed to upload PDF to Google Drive"))
                 /\ UNCHANGED store
    /\ UNCHANGED <<req, store0, reqNo, student_name, career_goal,
                   pdf_filename, created, filename, found>>

-----------------------------------------------------------------------------
(* do_GET *)

\* re.match(r'/api/download-report/(.*)', path).group(1), None without a match
ReMatch(path) ==
    IF StartsWith(path, DownloadPrefix)
    THEN PyStr(SubSeq(path, Len(DownloadPrefix) + 1, Len(path)))
    ELSE PyNone

\* urllib.parse.unquote, on the one escape the requests use.
Unquote(s) == [i \in 1..Len(s) |-> IF s[i] = "%20" THEN " " ELSE s[i]]

\* Variant: any non-empty Authorization header is accepted.
AuthorizedAnyHeader(h) == h.some /\ h.s # <<>>

\* Line 271: the header is present, not empty, and starts with "Bearer ".
Authorized(h) == h.some /\ h.s # <<>> /\ StartsWith(h.s, BearerPrefix)

HealthResponse == [status |-> 200, error |-> "", status_text |-> "healthy"]

\* do_GET up to its first external call.
GetOutcome(r) ==
    IF r.path = HealthPath THEN HealthResponse
    ELSE IF StartsWith(r.path, DownloadPrefix)
        THEN IF ~ReMatch(r.path).some THEN SendError(400, "Invalid file path")
             ELSE IF ~Authorized(r.auth) THEN SendError(401, "Authorization required")
             ELSE NoResponse
    ELSE SendError(404, "Route not found")

do_GET ==
    /\ pc = "dispatch"
    /\ req.method = "GET"
    /\ LET r == GetOutcome(req) IN
         IF r = NoResponse
         THEN /\ filename' = Unquote(ReMatch(req.path).s)
              /\ pc' = "download.setup_google_drive"
              /\ UNCHANGED response
         ELSE Finish(r) /\ UNCHANGED filename
    /\ UNCHANGED <<req, calls, store, store0, reqNo, student_name, career_goal,
                   pdf_filename, created, found>>

\* Lines 275-277
GetSetupDrive ==
    /\ pc = "download.setup_google_drive"
    /\ \E ok \in BOOLEAN :
         /\ calls' = Append(calls, Call("setup_google_drive", IF ok THEN "ok" ELSE "none"))
         /\ IF ok THEN pc' = "files.list" /\ UNCHANGED response
            ELSE Finish(SendError(500, "Failed to connect to Google Drive"))
    /\ UNCHANGED <<req, store, store0, reqNo, student_name, career_goal,
                   pdf_filename, created, filename, found>>

\* download_from_drive, lines 122-135: files().list; an exception or an
\* empty listing makes it return (None, None), and the handler answers 404.
FilesList ==
    /\ pc = "files.list"
    /\ \E ok \in BOOLEAN :
         /\ calls' = Append(calls, Call("files.list", IF ok THEN "ok" ELSE "raise"))
         /\ IF ok /\ ListFiles(filename) # {}
            THEN /\ \E f \in ListFiles(filename) : found' = f.id
                 /\ pc' = "files.get_media"
                 /\ UNCHANGED response
            ELSE /\ Finish(SendError(404, "File not found"))
                 /\ UNCHANGED found
    /\ UNCHANGED <<req, store, store0, reqNo, student_name, career_goal,
                   pdf_filename, created, filename>>

\* Lines 286-290: the file is sent.
FileResponse(id, name) ==
    [status |-> 200, error |-> "", file_id |-> id, attachment |-> name]

\* download_from_drive, lines 138-151, and the handler's answer.
FilesGetMedia ==
    /\ pc = "files.get_media"
    /\ \E ok \in BOOLEAN :
         /\ calls' = Append(calls, Call("files.get_media", IF ok THEN "ok" ELSE "raise"))
         /\ IF ok THEN Finish(FileResponse(found, filename))
            ELSE Finish(SendError(404, "File not found"))
    /\ UNCHANGED <<req, store, store0, reqNo, student_name, career_goal,
                   pdf_filename, created, filename, found>>

Next ==
    \/ Receive
    \/ UnsupportedMethod
    \/ do_POST
    \/ CalculateScores
    \/ ExtractCareerGoal
    \/ GenerateTopicReports
    \/ BuildReportData
    \/ GeneratePdfReport
    \/ PostSetupDrive
    \/ FilesCreate
    \/ PermissionsCreate
    \/ do_GET
    \/ GetSetupDrive
    \/ FilesList
    \/ FilesGetMedia

Spec == Init /\ [][Next]_vars

-----------------------------------------------------------------------------
(* Properties *)

Done == pc = "done"
IsSubmit == req.method = "POST" /\ req.path = SubmitPath
IsDownload ==
    /\ req.method = "GET"
    /\ Len(req.path) >= Len(DownloadPrefix)
    /\ \A i \in 1..Len(DownloadPrefix) : req.path[i] = DownloadPrefix[i]
Parsed == req.body.content_length /\ req.body.kind = "json"
HasAnswersField(v) == v.t = "obj" /\ "answers" \in DOMAIN v.fields
Failed(c) == c.result # "ok"
OpsCalled == { calls[i].op : i \in 1..Len(calls) }

\* C1: a submit body without an answers field is answered 400 "Missing
\* answers data", one whose answers is not a mapping 400 "Invalid answers
\* format", and in both cases no collaborator is called.
C1_MissingOrInvalidAnswers ==
    (Done /\ IsSubmit /\ Parsed) =>
        /\ ~HasAnswersField(req.body.v) =>
              response = SendError(400, "Missing answers data") /\ calls = <<>>
        /\ (HasAnswersField(req.body.v) /\ req.body.v.fields.answers.t # "obj") =>
              response = SendError(400, "Invalid answers format") /\ calls = <<>>

\* C1, restricted to bodies that are JSON objects: holds of the code.
C1_ObjectBodies ==
    (Done /\ IsSubmit /\ Parsed /\ req.body.v.t = "obj") => C1_MissingOrInvalidAnswers

KnownRoute(r) ==
    \/ r.method = "POST" /\ r.path = SubmitPath
    \/ r.method = "GET" /\ r.path = HealthPath
    \/ r.method = "GET" /\ IsDownload

\* C2: every request outside the three routes, other methods included, is
\* answered 404 {"error": "Route not found"}.
C2_UnknownRoute404 ==
    (Done /\ ~KnownRoute(req)) => response = SendError(404, "Route not found")

\* C2, for the methods GET and POST only: holds of the code.
C2_GetPostRoutes ==
    (Done /\ ~KnownRoute(req) /\ req.method \in {"GET", "POST"}) =>
        response = SendError(404, "Route not found")

StorageOps ==
    {"setup_google_drive", "files.list", "files.get_media", "files.create",
     "permissions.create"}

\* The Authorization header is there and begins with the characters "Bearer ".
HasBearer(h) ==
    /\ h.some
    /\ Len(h.s) >= 7
    /\ <<h.s[1], h.s[2], h.s[3], h.s[4], h.s[5], h.s[6], h.s[7]>>
          = <<"B", "e", "a", "r", "e", "r", " ">>

\* C3: a download request without a "Bearer " Authorization header is
\* answered 401 straight away, and no 401 response comes with a storage call
\* made.
C3_UnauthorizedBeforeStorage ==
    /\ response.status = 401 => OpsCalled \cap StorageOps = {}
    /\ (IsDownload /\ ~HasBearer(req.auth) /\ pc # "dispatch") =>
          /\ Done
          /\ response = SendError(401, "Authorization required")
          /\ calls = <<>>

C3_Witness ==
    /\ Done /\ IsDownload /\ response.status = 401
    /\ req.auth.some /\ req.auth.s # <<>>
    /\ ListFiles(Unquote(SubSeq(req.path, Len(DownloadPrefix) + 1, Len(req.path)))) # {}

\* C4: when the goal extractor returns no goal (None or the empty string) the
\* request ends there with 500 "Failed to extract career goal"; no goal is
\* substituted and no later stage runs.
C4_NoGoalFails ==
    \A i \in 1..Len(calls) :
        (calls[i].op = "extract_career_goal" /\ calls[i].result \in {"none", "empty"}) =>
            /\ i = Len(calls)
            /\ Done
            /\ response = SendError(500, "Failed to extract career goal")
            /\ career_goal \in {PyNone, PyStr(<<>>)}
            /\ store = store0

C4_Witness ==
    /\ Done /\ IsSubmit
    /\ Len(calls) = 2
    /\ calls[2] = Call("extract_career_goal", "empty")
    /\ response.status = 500

StageOrder ==
    <<"calculate_scores", "extract_career_goal", "generate_topic_reports",
      "build_report_data", "generate_pdf_report", "setup_google_drive",
      "files.create", "permissions.create">>

\* C5: the submit pipeline runs its stages in the one order, each only after
\* every earlier one succeeded and the body was validated; a failed stage ends
\* the request with an error response, and 200 is sent only after the upload.
C5_PipelineOrder ==
    IsSubmit =>
        /\ Len(calls) <= Len(StageOrder)
        /\ \A i \in 1..Len(calls) : calls[i].op = StageOrder[i]
        /\ calls # <<>> =>
              /\ Parsed /\ HasAnswersField(req.body.v)
              /\ req.body.v.fields.answers.t = "obj"
        /\ \A i \in 1..Len(calls) :
              Failed(calls[i]) => (i = Len(calls) /\ Done /\ response.status = 500)
        /\ response.status = 200 =>
              /\ Len(calls) = Len(StageOrder)
              /\ \A i \in 1..Len(calls) : ~Failed(calls[i])
        /\ Done => response.status \in {200, 400, 500}

C5_Witness ==
    /\ IsSubmit /\ Done /\ response.status = 200
    /\ Len(calls) = Len(StageOrder)

\* C6: client input errors on submit are answered 400, never 500: an
\* unreadable body or missing or invalid answers gets 400, and 500 is
\* returned only when a processing stage failed.
C6_ClientErrors400 ==
    (Done /\ IsSubmit) =>
        /\ (~Parsed \/ ~HasAnswersField(req.body.v)
              \/ req.body.v.fields.answers.t # "obj") => response.status = 400
        /\ response.status = 500 => \E i \in 1..Len(calls) : Failed(calls[i])

ExternalOps ==
    {"generate_topic_reports", "generate_pdf_report", "setup_google_drive",
     "files.create", "permissions.create"}

\* C7: within a submit request each external call (generative service, PDF
\* render, storage initialisation, file create, permission create) is issued
\* at most once, and its first failure ends the request.
C7_NoRetry ==
    IsSubmit =>
        /\ \A op \in ExternalOps :
              Cardinality({ i \in 1..Len(calls) : calls[i].op = op }) <= 1
        /\ \A i \in 1..Len(calls) :
              (calls[i].op \in ExternalOps /\ Failed(calls[i])) => (i = Len(calls) /\ Done)

C7_Witness ==
    /\ IsSubmit /\ Done
    /\ Len(calls) = 7
    /\ calls[7] = Call("files.create", "raise")

\* t is s without its leading and trailing whitespace.
IsTrimOf(t, s) ==
    /\ \E i, j \in 0..Len(s) :
          /\ i + j <= Len(s)
          /\ t = SubSeq(s, i + 1, Len(s) - j)
          /\ \A k \in 1..i : s[k] \in {" ", "\t", "\n"}
          /\ \A k \in (Len(s) - j + 1)..Len(s) : s[k] \in {" ", "\t", "\n"}
    /\ t # <<>> => (t[1] \notin {" ", "\t", "\n"} /\ t[Len(t)] \notin {" ", "\t", "\n"})

\* f is the name n with "_" for every space, then "_Career_Report.pdf".
IsReportFileName(f, n) ==
    /\ Len(f) = Len(n) + 1
    /\ f[Len(f)] = "_Career_Report.pdf"
    /\ \A k \in 1..Len(n) :
          /\ n[k] = " " => f[k] = "_"
          /\ n[k] # " " => f[k] = n[k]

\* The studentName the request submits, "Student" when it has none.
SubmittedName ==
    IF "studentName" \in DOMAIN req.body.v.fields
    THEN req.body.v.fields.studentName.s
    ELSE <<"S", "t", "u", "d", "e", "n", "t">>

\* C8: a 200 response of submit carries the trimmed submitted name, the file
\* name made from it (the name the PDF was uploaded under), the non-empty
\* extracted goal, and the id and link of the file this request uploaded.
C8_SuccessResponse ==
    (Done /\ IsSubmit /\ response.status = 200) =>
        /\ IsTrimOf(response.student_name, SubmittedName)
        /\ IsReportFileName(response.file_name, response.student_name)
        /\ response.career_goal # <<>>
        /\ calls[2] = Call("extract_career_goal", "ok")
        /\ response.career_goal = career_goal.s
        /\ Cardinality(store \ store0) = 1
        /\ \A f \in store \ store0 :
              /\ f.name = response.file_name
              /\ f.id = response.file_id
              /\ f.webViewLink = response.report_url
              /\ f.public

C8_Witness ==
    /\ Done /\ IsSubmit /\ response.status = 200
    /\ "studentName" \in DOMAIN req.body.v.fields
    /\ response.student_name # req.body.v.fields.studentName.s
    /\ \E k \in 1..Len(response.student_name) : response.student_name[k] = " "

StorageFailed ==
    \E i \in 1..Len(calls) :
        calls[i].op \in {"files.list", "files.get_media"} /\ Failed(calls[i])

\* C9: for an authorised download, 404 means the store lists no live file of
\* that name; a failure of the storage service during lookup or transfer is
\* reported as 500, never as 404.
C9_NotFoundDistinct ==
    (Done /\ IsDownload /\ HasBearer(req.auth)) =>
        /\ response.status = 404 => ListFiles(filename) = {}
        /\ (ListFiles(filename) = {} /\ \A i \in 1..Len(calls) : ~Failed(calls[i]))
              => response.status = 404
        /\ StorageFailed => response.status = 500

\* C10: a submit request that ends with an error response leaves the file
\* store as it was when the request arrived.
C10_ErrorLeavesStore ==
    (Done /\ IsSubmit /\ response.status # 200) => store = store0

====
